---------------------------- MODULE Spec2Model ----------------------------
(***************************************************************************)
(* crossplane-docs: the XRD documentation generator (package generator)   *)
(* and the Composition documentation generator (package composition).     *)
(*                                                                         *)
(* Each generator is a pure, single-threaded function from a parsed       *)
(* document and its options to a markdown text.  The model runs it as a   *)
(* sequence of steps (select version, extract, sort, flatten, render) on  *)
(* inputs drawn from bounded sets.  Go's map iteration order and the      *)
(* order sort.Slice leaves equal elements in are nondeterministic choices.*)
(*                                                                         *)
(* A markdown text is a sequence of its non-blank lines; the empty text   *)
(* "" is the empty sequence.  A nil pointer / nil interface is <<>> and a *)
(* present one is <<v>>.  A nil map and an empty map are both the empty   *)
(* function: the code only ever ranges over them or tests them for nil    *)
(* before ranging, which gives the same result.                           *)
(***************************************************************************)
EXTENDS Integers, Sequences, FiniteSets, TLC

VARIABLES
    prog,               \* which subcommand runs: "xrd" or "composition"
    pc,                 \* position inside Generate
    xrd,                \* generator.XRD (input)
    opts,               \* generator.Options / composition.Options (input)
    version,            \* Generate's local version: index into Versions, 0 = nil
    specFields,         \* Generate's / generateMarkdown's specFields
    statusFields,       \* Generate's / generateMarkdown's statusFields
    flatSpecFields,     \* generateMarkdown's flatSpecFields
    flatStatusFields,   \* generateMarkdown's flatStatusFields
    comp,               \* composition.Composition (input)
    resources,          \* composition Generate's local `resources`
    result,             \* returned markdown: sequence of non-blank lines
    err                 \* returned error message, "" = nil

vars == <<prog, pc, xrd, opts, version, specFields, statusFields,
          flatSpecFields, flatStatusFields, comp, resources, result, err>>

-----------------------------------------------------------------------------
(* Bounds of the model *)

MaxVersions == 2
MaxEnum == 2
MaxNum == 1
MaxResources == 2
MaxSteps == 2
MaxPatches == 2

-----------------------------------------------------------------------------
(* Generic helpers *)

Range(s) == {s[i] : i \in DOMAIN s}

Perms(n) == {p \in [1..n -> 1..n] : \A i, j \in 1..n : i # j => p[i] # p[j]}

\* All enumerations of a finite set as a sequence (Go: for k, v := range m
\* visits every key exactly once, in an unspecified order).
RangeOrders(S) ==
    LET n == Cardinality(S)
    IN  {s \in [1..n -> S] : \A i, j \in 1..n : i # j => s[i] # s[j]}

\* Go's < on the strings the model uses (byte-wise lexicographic).
StringOrder == <<"", "a", "b", "x">>
StringRank(s) == CHOOSE i \in DOMAIN StringOrder : StringOrder[i] = s
StringLess(s, t) == StringRank(s) < StringRank(t)

\* The back-tick character, which a TLA+ string cannot hold.
Backtick == "'"

\* strings.Join
RECURSIVE Join(_, _)
Join(elems, sep) ==
    IF Len(elems) = 0 THEN ""
    ELSE IF Len(elems) = 1 THEN elems[1]
    ELSE elems[1] \o sep \o Join(Tail(elems), sep)

\* strings.Repeat
RECURSIVE Repeat(_, _)
Repeat(s, count) == IF count <= 0 THEN "" ELSE s \o Repeat(s, count - 1)

\* fmt.Sprintf("%v", v) of a non-nil interface value.  A value is tagged
\* with its dynamic type: <<"int", 3>>, <<"str", "x">>, <<"bool", TRUE>>.
SprintV(v) ==
    CASE v[1] = "int"  -> ToString(v[2])
      [] v[1] = "str"  -> v[2]
      [] v[1] = "bool" -> IF v[2] THEN "true" ELSE "false"

\* sort.Slice(s, less): some permutation of s with no pair out of order.
\* less[i, j] tells whether the element at index i of s must come before the
\* element at index j.  sort.Slice is not stable, so elements that less does
\* not order may end up in any order.
SortSlice(s, less) ==
    LET n == Len(s)
    IN  {[i \in 1..n |-> s[p[i]]] :
            p \in {q \in Perms(n) :
                     \A i, j \in 1..n : i < j => ~less[q[j], q[i]]}}

-----------------------------------------------------------------------------
(* package generator: the schema model *)

\* The zero value of OpenAPISchema.
OpenAPISchema ==
    [Type |-> "", Description |-> "", Properties |-> <<>>, Items |-> <<>>,
     Required |-> <<>>, Default |-> <<>>, Enum |-> <<>>,
     Minimum |-> <<>>, Maximum |-> <<>>, MinItems |-> <<>>, MaxItems |-> <<>>]

\* Helper function
contains(slice, item) == \E i \in DOMAIN slice : slice[i] = item

\* A variant of formatType without the enum case.
RECURSIVE formatType_NoEnum(_)
formatType_NoEnum(schema) ==
    IF schema.Type = "array" /\ schema.Items # <<>>
    THEN "list(" \o formatType_NoEnum(schema.Items[1]) \o ")"
    ELSE IF schema.Type = "object" THEN "object"
    ELSE schema.Type

\* formatType formats the field type
RECURSIVE formatType(_)
formatType(schema) ==
    IF schema.Type = "array" /\ schema.Items # <<>>
    THEN "list(" \o formatType(schema.Items[1]) \o ")"
    ELSE IF schema.Type = "object" THEN "object"
    ELSE IF Len(schema.Enum) > 0 THEN "string"
    ELSE schema.Type

\* formatDefault formats the default value
formatDefault(value) == IF value = <<>> THEN "" ELSE SprintV(value[1])

\* A variant of constraintList that appends the item bounds before the
\* numeric bounds.
constraintList_ItemsFirst(schema) ==
    LET enumVals == [i \in DOMAIN schema.Enum |-> Backtick \o SprintV(schema.Enum[i]) \o Backtick]
        c1 == IF Len(schema.Enum) > 0
              THEN <<"Allowed: " \o Join(enumVals, ", ")>> ELSE <<>>
        c2 == IF schema.MinItems # <<>>
              THEN Append(c1, "MinItems: " \o ToString(schema.MinItems[1])) ELSE c1
        c3 == IF schema.MaxItems # <<>>
              THEN Append(c2, "MaxItems: " \o ToString(schema.MaxItems[1])) ELSE c2
        c4 == IF schema.Minimum # <<>>
              THEN Append(c3, "Min: " \o ToString(schema.Minimum[1])) ELSE c3
        c5 == IF schema.Maximum # <<>>
              THEN Append(c4, "Max: " \o ToString(schema.Maximum[1])) ELSE c4
    IN  c5

\* The local constraints of formatConstraints, just before the final Join
constraintList(schema) ==
    LET enumVals == [i \in DOMAIN schema.Enum |-> Backtick \o SprintV(schema.Enum[i]) \o Backtick]
        c1 == IF Len(schema.Enum) > 0
              THEN <<"Allowed: " \o Join(enumVals, ", ")>> ELSE <<>>
        c2 == IF schema.Minimum # <<>>
              THEN Append(c1, "Min: " \o ToString(schema.Minimum[1])) ELSE c1
        c3 == IF schema.Maximum # <<>>
              THEN Append(c2, "Max: " \o ToString(schema.Maximum[1])) ELSE c2
        c4 == IF schema.MinItems # <<>>
              THEN Append(c3, "MinItems: " \o ToString(schema.MinItems[1])) ELSE c3
        c5 == IF schema.MaxItems # <<>>
              THEN Append(c4, "MaxItems: " \o ToString(schema.MaxItems[1])) ELSE c4
    IN  c5

\* formatConstraints formats validation constraints
formatConstraints(schema) == Join(constraintList(schema), ", ")

-----------------------------------------------------------------------------
(* package generator: field extraction *)

\* A variant of Field that looks the name up in the property's own required
\* list instead of its parent's.
Field_OwnRequired(name, prop, parentRequired, level, nested) ==
    [Name        |-> name,
     Type        |-> formatType(prop),
     Description |-> prop.Description,
     Required    |-> contains(prop.Required, name),
     Default     |-> formatDefault(prop.Default),
     Constraints |-> formatConstraints(prop),
     Nested      |-> nested,
     Level       |-> level]

\* The Field literal built in the loops of extractFields and
\* extractNestedFields, with its Nested already assigned.
Field(name, prop, parentRequired, level, nested) ==
    [Name        |-> name,
     Type        |-> formatType(prop),
     Description |-> prop.Description,
     Required    |-> contains(parentRequired, name),
     Default     |-> formatDefault(prop.Default),
     Constraints |-> formatConstraints(prop),
     Nested      |-> nested,
     Level       |-> level]

\* A variant of extractNestedFields that passes its own level to the
\* recursive call.
RECURSIVE extractNestedFields_SameLevel(_, _, _)
extractNestedFields_SameLevel(schema, level, showNested) ==
    IF schema.Properties = <<>> THEN {<<>>}
    ELSE
    LET names == DOMAIN schema.Properties
        NestedOf(name) ==
            LET prop == schema.Properties[name]
            IN  IF showNested /\ prop.Type = "object" /\ prop.Properties # <<>>
                THEN extractNestedFields_SameLevel(prop, level, showNested)
                ELSE {<<>>}
        choices == {c \in [names -> UNION {NestedOf(n) : n \in names}] :
                        \A n \in names : c[n] \in NestedOf(n)}
    IN  {[i \in 1..Len(order) |->
            Field(order[i], schema.Properties[order[i]], schema.Required,
                  level, c[order[i]])] :
            order \in RangeOrders(names), c \in choices}

\* A variant of extractNestedFields that recurses whatever showNested is.
RECURSIVE extractNestedFields_AlwaysNested(_, _, _)
extractNestedFields_AlwaysNested(schema, level, showNested) ==
    IF schema.Properties = <<>> THEN {<<>>}
    ELSE
    LET names == DOMAIN schema.Properties
        NestedOf(name) ==
            LET prop == schema.Properties[name]
            IN  IF prop.Type = "object" /\ prop.Properties # <<>>
                THEN extractNestedFields_AlwaysNested(prop, level + 1, showNested)
                ELSE {<<>>}
        choices == {c \in [names -> UNION {NestedOf(n) : n \in names}] :
                        \A n \in names : c[n] \in NestedOf(n)}
    IN  {[i \in 1..Len(order) |->
            Field(order[i], schema.Properties[order[i]], schema.Required,
                  level, c[order[i]])] :
            order \in RangeOrders(names), c \in choices}

\* extractNestedFields extracts nested object fields.  The value is the set
\* of sequences the call can return, one per order in which the range loops
\* (this one and those of the recursive calls) visit the property maps.
RECURSIVE extractNestedFields(_, _, _)
extractNestedFields(schema, level, showNested) ==
    IF schema.Properties = <<>> THEN {<<>>}
    ELSE
    LET names == DOMAIN schema.Properties
        NestedOf(name) ==
            LET prop == schema.Properties[name]
            IN  IF showNested /\ prop.Type = "object" /\ prop.Properties # <<>>
                THEN extractNestedFields(prop, level + 1, showNested)
                ELSE {<<>>}
        choices == {c \in [names -> UNION {NestedOf(n) : n \in names}] :
                        \A n \in names : c[n] \in NestedOf(n)}
    IN  {[i \in 1..Len(order) |->
            Field(order[i], schema.Properties[order[i]], schema.Required,
                  level, c[order[i]])] :
            order \in RangeOrders(names), c \in choices}

\* extractFields recursively extracts fields from the schema.  The loop over
\* targetProp.Properties is the loop of extractNestedFields over the section
\* node (same Field literal, same recursion), so it is modelled by it.
extractFields(schema, prefix, required, level, showNested) ==
    IF schema.Properties = <<>> THEN {<<>>}
    ELSE IF prefix \notin DOMAIN schema.Properties THEN {<<>>}
    ELSE IF schema.Properties[prefix].Properties = <<>> THEN {<<>>}
    ELSE extractNestedFields(schema.Properties[prefix], level, showNested)

\* A variant of flattenFields that emits the fields of a level before the
\* nested fields of any of them.
RECURSIVE flattenFields_LevelFirst(_)
flattenFields_LevelFirst(fields) ==
    IF Len(fields) = 0 THEN <<>>
    ELSE LET field == Head(fields)
         IN  <<field>>
             \o flattenFields_LevelFirst(Tail(fields))
             \o (IF Len(field.Nested) > 0
                 THEN flattenFields_LevelFirst(field.Nested) ELSE <<>>)

\* flattenFields converts nested field structure to flat list for table display
RECURSIVE flattenFields(_)
flattenFields(fields) ==
    IF Len(fields) = 0 THEN <<>>
    ELSE LET field == Head(fields)
         IN  <<field>>
             \o (IF Len(field.Nested) > 0 THEN flattenFields(field.Nested) ELSE <<>>)
             \o flattenFields(Tail(fields))

\* A variant of specLess that orders by name alone.
specLess_NameOnly(fi, fj) == StringLess(fi.Name, fj.Name)

\* The comparison function of the spec-field sort in generateMarkdown
specLess(fi, fj) ==
    IF fi.Required # fj.Required THEN fi.Required
    ELSE StringLess(fi.Name, fj.Name)

\* The comparison function of the status-field sort in generateMarkdown
statusLess(fi, fj) == StringLess(fi.Name, fj.Name)

-----------------------------------------------------------------------------
(* package generator: rendering *)

\* Glyphs of the template that a TLA+ string cannot hold.
CheckMark == "[yes]"
CrossMark == "[no]"
NestedArrow == "-> "

\* The template function "indent"
indent(level) == Repeat("&nbsp;&nbsp;", level) \o NestedArrow

NonBlank(lines) == SelectSeq(lines, LAMBDA l : l # "")

\* One row of the Spec Fields table
specRow(f) ==
    "| " \o (IF f.Level > 0 THEN indent(f.Level) ELSE "") \o f.Name
    \o " | " \o f.Type \o " | " \o f.Description
    \o " | " \o (IF f.Required THEN CheckMark ELSE CrossMark)
    \o " | " \o (IF f.Default # "" THEN Backtick \o f.Default \o Backtick ELSE "-")
    \o " | " \o (IF f.Constraints # "" THEN f.Constraints ELSE "-") \o " |"

\* One row of the Status Fields table
statusRow(f) ==
    "| " \o (IF f.Level > 0 THEN indent(f.Level) ELSE "") \o f.Name
    \o " | " \o f.Type \o " | " \o f.Description \o " |"

\* A variant of executeTemplate whose Status Fields section is not
\* conditional.
executeTemplate_AlwaysStatus(x, v, flatSpec, flatStatus) ==
    NonBlank(
      << "# " \o x.Spec.Names.Kind,
         v.Schema.OpenAPIV3Schema.Description,
         "**API Group:** " \o x.Spec.Group \o "  ",
         "**API Version:** " \o v.Name \o "  ",
         "**Kind:** " \o x.Spec.Names.Kind \o "  ",
         "## Spec Fields",
         "| Name | Type | Description | Required | Default | Constraints |",
         "|------|------|-------------|----------|---------|-------------|" >>
      \o [i \in DOMAIN flatSpec |-> specRow(flatSpec[i])]
      \o << "## Status Fields",
            "| Name | Type | Description |",
            "|------|------|-------------|" >>
      \o [i \in DOMAIN flatStatus |-> statusRow(flatStatus[i])]
      \o << "## Example" >>)

\* The template of generateMarkdown executed on its data: the non-blank
\* lines of the output.
executeTemplate(x, v, flatSpec, flatStatus) ==
    LET kind == x.Spec.Names.Kind
        claim == x.Spec.ClaimNames
    IN  NonBlank(
          << "# " \o kind,
             v.Schema.OpenAPIV3Schema.Description,
             "**API Group:** " \o x.Spec.Group \o "  ",
             "**API Version:** " \o v.Name \o "  ",
             "**Kind:** " \o kind \o "  ",
             IF claim # <<>> THEN "**Claim Kind:** " \o claim[1].Kind \o "  " ELSE "",
             "## Spec Fields",
             "| Name | Type | Description | Required | Default | Constraints |",
             "|------|------|-------------|----------|---------|-------------|" >>
          \o [i \in DOMAIN flatSpec |-> specRow(flatSpec[i])]
          \o (IF Len(flatStatus) > 0
              THEN << "## Status Fields",
                      "| Name | Type | Description |",
                      "|------|------|-------------|" >>
                   \o [i \in DOMAIN flatStatus |-> statusRow(flatStatus[i])]
              ELSE <<>>)
          \o << "## Example",
                Backtick \o Backtick \o Backtick \o "yaml",
                "apiVersion: " \o x.Spec.Group \o "/" \o v.Name,
                "kind: " \o (IF claim # <<>> THEN claim[1].Kind ELSE kind),
                "metadata:",
                "  name: example",
                "spec:",
                "  # Add your spec fields here",
                Backtick \o Backtick \o Backtick >>)

-----------------------------------------------------------------------------
(* package generator: the inputs the model draws from *)

Names == {"a", "b", "x"}

\* A list holding the names of S, in the order of StringOrder
ListOf(S) == SelectSeq(StringOrder, LAMBDA n : n \in S)

StringNode == [OpenAPISchema EXCEPT !.Type = "string"]

Object(props, req) ==
    [OpenAPISchema EXCEPT !.Type = "object", !.Properties = props, !.Required = req]

Root(props) == [OpenAPISchema EXCEPT !.Type = "object", !.Description = "doc",
                                     !.Properties = props]

\* Values of default and enum
Values == << <<"str", "a">>, <<"int", 1>>, <<"bool", TRUE>> >>

\* Nodes of the third level: a scalar, an object with one property, and a
\* node that has properties but is not declared an object.
InnerNodes ==
    {StringNode,
     Object("x" :> StringNode, <<"x">>),
     Object("x" :> StringNode, <<>>),
     [OpenAPISchema EXCEPT !.Properties = "x" :> StringNode]}

\* Nodes of the second level with nested properties
MidObjects ==
    UNION {{Object(props, req) : props \in [D -> InnerNodes],
                                 req \in {<<>>, <<"x">>}} :
           D \in {{"a"}, {"a", "x"}}}

\* Sections whose properties nest down to the third level
TreeSections ==
    {Object(props, req) :
        props \in {"x" :> m : m \in MidObjects}
                  \cup {("a" :> StringNode) @@ ("x" :> m) : m \in MidObjects},
        req \in {<<>>, <<"x">>}}

\* Sections of scalar properties with every required list over Names
FlatSections ==
    {Object([n \in D |-> StringNode], ListOf(R)) : D \in SUBSET Names, R \in SUBSET Names}

OptNums(base) == {<<>>} \cup {<<base + n>> : n \in 1..MaxNum}

\* Nodes that exercise formatType, formatDefault and formatConstraints
FormatNodes ==
    {[OpenAPISchema EXCEPT !.Type = t, !.Enum = SubSeq(Values, 1, e),
                           !.Items = it, !.Minimum = mn, !.Maximum = mx,
                           !.MinItems = mi, !.MaxItems = ma] :
        t \in {"", "string", "integer", "number", "boolean", "array", "object"},
        e \in 0..MaxEnum,
        it \in {<<>>, <<StringNode>>,
                <<[OpenAPISchema EXCEPT !.Type = "integer", !.Enum = <<Values[2]>>]>>},
        mn \in OptNums(0), mx \in OptNums(1), mi \in OptNums(0), ma \in OptNums(4)}
    \cup {[StringNode EXCEPT !.Default = <<Values[i]>>, !.Description = "text"] :
            i \in DOMAIN Values}

FormatSections == {Object("x" :> n, <<>>) : n \in FormatNodes}

StatusNodes ==
    {StringNode,
     Object(("a" :> StringNode) @@ ("b" :> StringNode), <<>>),
     Object("b" :> Object("a" :> StringNode, <<"a">>), <<"b">>)}

Schemas ==
    {Root("spec" :> s) : s \in TreeSections \cup FlatSections \cup FormatSections}
    \cup {Root("status" :> st) : st \in StatusNodes}
    \cup {Root(("spec" :> Object("a" :> StringNode, <<"a">>)) @@ ("status" :> st)) :
            st \in StatusNodes}
    \cup {Root(<<>>),
          Root(("spec" :> StringNode) @@ ("status" :> Object(<<>>, <<>>)))}

\* Schemas of the documents that declare several versions
VersionSchemas ==
    {Root("spec" :> Object("a" :> StringNode, <<>>)),
     Root("spec" :> Object("b" :> StringNode, <<"b">>))}

VersionName(i) == "v" \o ToString(i)

XRD(versions, claimNames) ==
    [Spec |-> [Group |-> "example.org", Names |-> [Kind |-> "XDatabase"],
               ClaimNames |-> claimNames, Versions |-> versions]]

XRDVersion(name, served, schema) ==
    [Name |-> name, Served |-> served, Schema |-> [OpenAPIV3Schema |-> schema]]

XRDs ==
    {XRD(<<XRDVersion(VersionName(1), TRUE, s)>>, <<>>) : s \in Schemas}
    \cup {XRD(<<XRDVersion(VersionName(1), FALSE, Root("status" :> st))>>,
              <<[Kind |-> "Database"]>>) : st \in StatusNodes}
    \cup UNION {{XRD([i \in 1..n |-> XRDVersion(VersionName(i), served[i], schema[i])], <<>>) :
                    served \in [1..n -> BOOLEAN], schema \in [1..n -> VersionSchemas]} :
                n \in 0..MaxVersions}

-----------------------------------------------------------------------------
(* package generator: Generate, step by step *)

\* The loop of Generate over xrd.Spec.Versions from index i on: the index
\* of the first served version, 0 when the loop ends with version == nil.
RECURSIVE firstServed(_, _)
firstServed(versions, i) ==
    IF i > Len(versions) THEN 0
    ELSE IF versions[i].Served THEN i
    ELSE firstServed(versions, i + 1)

\* A variant of the version loop without its break: the last served version.
RECURSIVE lastServed(_, _)
lastServed(versions, i) ==
    IF i < 1 THEN 0
    ELSE IF versions[i].Served THEN i
    ELSE lastServed(versions, i - 1)

selectVersion_NoBreak(versions) ==
    LET v == lastServed(versions, Len(versions))
    IN  IF v = 0 THEN 1 ELSE v

\* Generate's choice of the version to document
selectVersion(versions) ==
    LET v == firstServed(versions, 1)
    IN  IF v = 0 THEN 1 ELSE v

\* The schema Generate extracts from
versionSchema == xrd.Spec.Versions[version].Schema.OpenAPIV3Schema

NoComposition == <<>>

InitXRD ==
    /\ prog = "xrd"
    /\ pc = "Generate"
    /\ xrd \in XRDs
    /\ opts \in [ShowNested : BOOLEAN]
    /\ version = 0
    /\ specFields = <<>>
    /\ statusFields = <<>>
    /\ flatSpecFields = <<>>
    /\ flatStatusFields = <<>>
    /\ comp = NoComposition
    /\ resources = <<>>
    /\ result = <<>>
    /\ err = ""

\* A variant of Generate that returns no error for an empty version list.
Generate_NoError ==
    /\ prog = "xrd" /\ pc = "Generate"
    /\ IF Len(xrd.Spec.Versions) = 0
       THEN /\ result' = <<>>
            /\ err' = ""
            /\ pc' = "done"
            /\ UNCHANGED version
       ELSE /\ version' = selectVersion(xrd.Spec.Versions)
            /\ pc' = "extractSpec"
            /\ UNCHANGED <<result, err>>
    /\ UNCHANGED <<prog, xrd, opts, specFields, statusFields, flatSpecFields,
                   flatStatusFields, comp, resources>>

\* Generate, up to the choice of the version
Generate ==
    /\ prog = "xrd" /\ pc = "Generate"
    /\ IF Len(xrd.Spec.Versions) = 0
       THEN /\ result' = <<>>
            /\ err' = "no versions found in XRD"
            /\ pc' = "done"
            /\ UNCHANGED version
       ELSE /\ version' = selectVersion(xrd.Spec.Versions)
            /\ pc' = "extractSpec"
            /\ UNCHANGED <<result, err>>
    /\ UNCHANGED <<prog, xrd, opts, specFields, statusFields, flatSpecFields,
                   flatStatusFields, comp, resources>>

\* Extract spec fields
ExtractSpec ==
    /\ prog = "xrd" /\ pc = "extractSpec"
    /\ specFields' \in extractFields(versionSchema, "spec", <<>>, 0, opts.ShowNested)
    /\ pc' = "extractStatus"
    /\ UNCHANGED <<prog, xrd, opts, version, statusFields, flatSpecFields,
                   flatStatusFields, comp, resources, result, err>>

\* Always include status fields
ExtractStatus ==
    /\ prog = "xrd" /\ pc = "extractStatus"
    /\ statusFields' \in extractFields(versionSchema, "status", <<>>, 0, opts.ShowNested)
    /\ pc' = "sort"
    /\ UNCHANGED <<prog, xrd, opts, version, specFields, flatSpecFields,
                   flatStatusFields, comp, resources, result, err>>

\* generateMarkdown: sort fields, required first, then alphabetically
SortFields ==
    /\ prog = "xrd" /\ pc = "sort"
    /\ specFields' \in SortSlice(specFields,
            [i \in DOMAIN specFields, j \in DOMAIN specFields |->
                specLess(specFields[i], specFields[j])])
    /\ statusFields' \in IF Len(statusFields) > 0
                         THEN SortSlice(statusFields,
                                [i \in DOMAIN statusFields, j \in DOMAIN statusFields |->
                                    statusLess(statusFields[i], statusFields[j])])
                         ELSE {statusFields}
    /\ pc' = "flatten"
    /\ UNCHANGED <<prog, xrd, opts, version, flatSpecFields, flatStatusFields,
                   comp, resources, result, err>>

\* generateMarkdown: flatten nested fields for table display
FlattenFields ==
    /\ prog = "xrd" /\ pc = "flatten"
    /\ flatSpecFields' = flattenFields(specFields)
    /\ flatStatusFields' = flattenFields(statusFields)
    /\ pc' = "render"
    /\ UNCHANGED <<prog, xrd, opts, version, specFields, statusFields,
                   comp, resources, result, err>>

\* generateMarkdown: execute the template and return its output
Render ==
    /\ prog = "xrd" /\ pc = "render"
    /\ result' = executeTemplate(xrd, xrd.Spec.Versions[version],
                                 flatSpecFields, flatStatusFields)
    /\ err' = ""
    /\ pc' = "done"
    /\ UNCHANGED <<prog, xrd, opts, version, specFields, statusFields,
                   flatSpecFields, flatStatusFields, comp, resources>>

Next ==
    \/ Generate
    \/ ExtractSpec
    \/ ExtractStatus
    \/ SortFields
    \/ FlattenFields
    \/ Render

Spec == InitXRD /\ [][Next]_vars

-----------------------------------------------------------------------------
(* package composition: the document model *)

\* A value of type interface{} is tagged with its dynamic type:
\* <<"str", s>>, <<"int", n>>, <<"map", m>>, <<"seq", s>>.
IsString(v) == v[1] = "str"
IsMap(v) == v[1] = "map"
IsSeq(v) == v[1] = "seq"

\* The value m[key] of a map[string]interface{}: the nil interface, of no
\* dynamic type, when the key is missing.
MapIndex(m, key) == IF key \in DOMAIN m THEN m[key] ELSE <<"nil">>

\* Helper functions
getString(m, key) ==
    LET v == MapIndex(m, key)
    IN  IF IsString(v) THEN v[2] ELSE ""

\* keys is strings.Split(key, "."), the list of the segments of the key.
RECURSIVE getStringFromMap(_, _)
getStringFromMap(m, keys) ==
    LET v == MapIndex(m, Head(keys))
    IN  IF Len(keys) = 1
        THEN (IF IsString(v) THEN v[2] ELSE "")
        ELSE IF IsMap(v) THEN getStringFromMap(v[2], Tail(keys))
        ELSE ""

\* formatTransformation formats the transformation description
formatTransformation(p) ==
    IF p.Combine # <<>> /\ p.Combine[1].String # <<>>
    THEN p.Combine[1].String[1].Fmt
    ELSE IF p.Type = "FromCompositeFieldPath" \/ p.Type = "ToCompositeFieldPath"
    THEN "Direct copy"
    ELSE p.Type

\* extractPatches extracts patch information
extractPatches(patches) ==
    [i \in DOMAIN patches |->
        [XRDField       |-> patches[i].FromFieldPath,
         MappedTo       |-> patches[i].ToFieldPath,
         Transformation |-> formatTransformation(patches[i])]]

\* The PatchInfo that the loop body of parsePatchesFromInterface builds from
\* a patch that is a map
patchInfoFromMap(patchMap) ==
    LET XRDField == getString(patchMap, "fromFieldPath")
        combine == MapIndex(patchMap, "combine")
        str == IF IsMap(combine) THEN MapIndex(combine[2], "string") ELSE <<"nil">>
        fmt == IF IsMap(str) THEN MapIndex(str[2], "fmt") ELSE <<"nil">>
    IN  [XRDField       |-> XRDField,
         MappedTo       |-> getString(patchMap, "toFieldPath"),
         Transformation |->
            IF IsMap(combine)
            THEN (IF IsMap(str) /\ IsString(fmt) THEN fmt[2] ELSE "")
            ELSE IF XRDField # "" THEN "Direct copy"
            ELSE ""]

\* parsePatchesFromInterface parses patches from interface
RECURSIVE parsePatchesFromInterface(_)
parsePatchesFromInterface(patches) ==
    IF Len(patches) = 0 THEN <<>>
    ELSE LET p == Head(patches)
             rest == parsePatchesFromInterface(Tail(patches))
         IN  IF IsMap(p)
             THEN LET info == patchInfoFromMap(p[2])
                  IN  IF info.XRDField # "" \/ info.MappedTo # ""
                      THEN <<info>> \o rest
                      ELSE rest
             ELSE rest

\* parseResource parses a resource from map
parseResource(resMap, o) ==
    LET base == MapIndex(resMap, "base")
        patches == MapIndex(resMap, "patches")
    IN  [Name        |-> getString(resMap, "name"),
         Kind        |-> IF IsMap(base) THEN getString(base[2], "kind") ELSE "",
         APIVersion  |-> IF IsMap(base) THEN getString(base[2], "apiVersion") ELSE "",
         Description |-> "",
         Patches     |-> IF o.ShowPatches /\ IsSeq(patches)
                         THEN parsePatchesFromInterface(patches[2])
                         ELSE <<>>]

\* A variant of stepResources that leaves the loop at the first entry that
\* is no map.
RECURSIVE stepResources_StopAtNonMap(_, _)
stepResources_StopAtNonMap(input, o) ==
    IF Len(input) = 0 \/ ~IsMap(Head(input)) THEN <<>>
    ELSE <<parseResource(Head(input)[2], o)>> \o stepResources_StopAtNonMap(Tail(input), o)

\* The resources that extractPipelineResources collects from one step
RECURSIVE stepResources(_, _)
stepResources(input, o) ==
    IF Len(input) = 0 THEN <<>>
    ELSE (IF IsMap(Head(input)) THEN <<parseResource(Head(input)[2], o)>> ELSE <<>>)
         \o stepResources(Tail(input), o)

\* A variant of extractPipelineResources that stops at the first step whose
\* input holds no sequence under the resources key.
RECURSIVE extractPipelineResources_StopAtGap(_, _)
extractPipelineResources_StopAtGap(pipeline, o) ==
    IF Len(pipeline) = 0 THEN <<>>
    ELSE LET input == MapIndex(Head(pipeline).Input, "resources")
         IN  IF IsSeq(input)
             THEN stepResources(input[2], o)
                  \o extractPipelineResources_StopAtGap(Tail(pipeline), o)
             ELSE <<>>

\* extractPipelineResources extracts resources from pipeline mode
RECURSIVE extractPipelineResources(_, _)
extractPipelineResources(pipeline, o) ==
    IF Len(pipeline) = 0 THEN <<>>
    ELSE LET input == MapIndex(Head(pipeline).Input, "resources")
         IN  (IF IsSeq(input) THEN stepResources(input[2], o) ELSE <<>>)
             \o extractPipelineResources(Tail(pipeline), o)

\* A variant of extractResources that extracts the patches whatever the
\* option says.
extractResources_AlwaysPatches(rs, o) ==
    [i \in DOMAIN rs |->
        [Name        |-> rs[i].Name,
         Kind        |-> getStringFromMap(rs[i].Base, <<"kind">>),
         APIVersion  |-> getStringFromMap(rs[i].Base, <<"apiVersion">>),
         Description |-> "",
         Patches     |-> extractPatches(rs[i].Patches)]]

\* extractResources extracts resources from resources mode
extractResources(rs, o) ==
    [i \in DOMAIN rs |->
        [Name        |-> rs[i].Name,
         Kind        |-> getStringFromMap(rs[i].Base, <<"kind">>),
         APIVersion  |-> getStringFromMap(rs[i].Base, <<"apiVersion">>),
         Description |-> "",
         Patches     |-> IF o.ShowPatches THEN extractPatches(rs[i].Patches) ELSE <<>>]]

\* The comparison function of the resource sort in generateMarkdown
resourceLess(ri, rj) == StringLess(ri.Name, rj.Name)

\* The Field Mappings subsection of one resource
RECURSIVE mappingLines(_)
mappingLines(rs) ==
    IF Len(rs) = 0 THEN <<>>
    ELSE LET r == Head(rs)
         IN  <<"### " \o r.Name \o " (" \o r.Kind \o ")">>
             \o (IF Len(r.Patches) > 0
                 THEN << "| XRD Field | Mapped To | Transformation |",
                         "|-----------|-----------|----------------|" >>
                      \o [i \in DOMAIN r.Patches |->
                            "| " \o (IF r.Patches[i].XRDField # ""
                                     THEN r.Patches[i].XRDField ELSE "-")
                            \o " | " \o r.Patches[i].MappedTo
                            \o " | " \o r.Patches[i].Transformation \o " |"]
                 ELSE <<"No patches defined.">>)
             \o mappingLines(Tail(rs))

\* The template of the composition generateMarkdown executed on its data:
\* the non-blank lines of the output.
compExecuteTemplate(c, name, rs, showPatches) ==
    LET ref == c.Spec.CompositeTypeRef
    IN  NonBlank(
          << "# " \o ref.Kind \o " Composition",
             "**Composition Name:** " \o name \o "  ",
             "**Composite Type:** " \o ref.APIVersion \o "/" \o ref.Kind \o "  ",
             IF c.Spec.Mode # "" THEN "**Mode:** " \o c.Spec.Mode ELSE "",
             "## Managed Resources",
             "This composition creates " \o ToString(Len(rs)) \o " managed resource(s):",
             "| Resource Name | Kind | API Version |",
             "|---------------|------|-------------|" >>
          \o [i \in DOMAIN rs |->
                "| " \o rs[i].Name \o " | " \o rs[i].Kind \o " | " \o rs[i].APIVersion \o " |"]
          \o (IF showPatches THEN <<"## Field Mappings">> \o mappingLines(rs) ELSE <<>>))

-----------------------------------------------------------------------------
(* package composition: the inputs the model draws from *)

Patch(type, from, to, combine) ==
    [Type |-> type, FromFieldPath |-> from, ToFieldPath |-> to, Combine |-> combine]

\* A Combine with a string format, and one without
CombineFmt == <<[Strategy |-> "string", String |-> <<[Fmt |-> "%s-%s"]>>]>>
CombineNoString == <<[Strategy |-> "string", String |-> <<>>]>>

Patches ==
    {Patch("FromCompositeFieldPath", "spec.size", "spec.forProvider.size", <<>>),
     Patch("ToCompositeFieldPath", "status.arn", "status.atProvider.arn", <<>>),
     Patch("", "spec.size", "spec.forProvider.size", <<>>),
     Patch("CombineFromComposite", "", "metadata.name", CombineFmt),
     Patch("CombineFromComposite", "", "metadata.name", CombineNoString),
     Patch("PatchSet", "", "", <<>>),
     Patch("FromEnvironmentFieldPath", "", "spec.region", <<>>)}

SeqsUpTo(S, n) == UNION {[1..k -> S] : k \in 0..n}

Base == ("kind" :> <<"str", "Bucket">>) @@ ("apiVersion" :> <<"str", "s3.aws/v1">>)

Resource(name, base, patches) == [Name |-> name, Base |-> base, Patches |-> patches]

\* One resource with every list of patches
PatchedResources == {<<Resource("a", Base, ps)>> : ps \in SeqsUpTo(Patches, MaxPatches)}

\* Lists of resources, names repeated or out of order, a base without kind
ResourceLists ==
    SeqsUpTo({Resource("a", Base, <<>>),
              Resource("b", Base, <<Patch("FromCompositeFieldPath", "spec.size",
                                          "spec.forProvider.size", <<>>)>>),
              Resource("b", <<>>, <<>>),
              Resource("x", "kind" :> <<"int", 1>>, <<>>)}, MaxResources)

\* What yaml.Unmarshal into interface{} gives for the document that gives
\* the typed value: an empty string field is a key left out.
GenericFields(pairs) ==
    LET kept == {i \in DOMAIN pairs : pairs[i][2] # <<"str", "">>}
    IN  [k \in {pairs[i][1] : i \in kept} |->
            pairs[CHOOSE i \in kept : pairs[i][1] = k][2]]

GenericCombine(combine) ==
    IF combine[1].String = <<>>
    THEN <<"map", "strategy" :> <<"str", combine[1].Strategy>>>>
    ELSE <<"map", ("strategy" :> <<"str", combine[1].Strategy>>)
                  @@ ("string" :> <<"map", "fmt" :> <<"str", combine[1].String[1].Fmt>>>>)>>

GenericPatch(p) ==
    <<"map",
      GenericFields(<< <<"type", <<"str", p.Type>>>>,
                       <<"fromFieldPath", <<"str", p.FromFieldPath>>>>,
                       <<"toFieldPath", <<"str", p.ToFieldPath>>>> >>)
      @@ (IF p.Combine # <<>> THEN "combine" :> GenericCombine(p.Combine) ELSE <<>>)>>

\* Patch entries of a pipeline input: the patches above, and malformed ones
GenericPatches ==
    {GenericPatch(p) : p \in Patches}
    \cup {<<"str", "spec.size">>,
          <<"map", ("fromFieldPath" :> <<"int", 1>>) @@ ("toFieldPath" :> <<"str", "spec.count">>)>>,
          <<"map", ("fromFieldPath" :> <<"str", "spec.size">>) @@ ("combine" :> <<"str", "none">>)>>,
          <<"map", ("toFieldPath" :> <<"str", "metadata.name">>)
                   @@ ("combine" :> <<"map", "string" :> <<"map", "fmt" :> <<"int", 1>>>>>>)>>}

GenericResource(name, base, patches) ==
    <<"map", ("name" :> <<"str", name>>) @@ ("base" :> <<"map", base>>)
             @@ ("patches" :> <<"seq", patches>>)>>

PipelineStep(name, input) ==
    [Step |-> name, FunctionRef |-> [Name |-> "function-patch-and-transform"],
     Input |-> input]

\* One step with one resource with every list of patch entries
PatchedPipelines ==
    {<<PipelineStep("s", "resources" :>
            <<"seq", <<GenericResource("a", Base, ps)>>>>)>> :
        ps \in SeqsUpTo(GenericPatches, MaxPatches)}

\* Inputs of a step: no resources key, resources that are no sequence, and
\* sequences of resource maps and of other values
StepInputs ==
    {<<>>,
     "resources" :> <<"str", "none">>,
     "resources" :> <<"seq", <<GenericResource("b", Base, <<>>)>>>>,
     "resources" :> <<"seq", << <<"str", "a">>,
                               GenericResource("a", Base,
                                   << <<"str", "spec.size">>,
                                      GenericPatch(Patch("", "spec.size",
                                                         "spec.forProvider.size", <<>>)) >>) >>>>,
     "resources" :> <<"seq", << <<"map", "name" :> <<"str", "x">>>>,
                               <<"map", ("name" :> <<"str", "a">>)
                                        @@ ("base" :> <<"str", "Bucket">>)
                                        @@ ("patches" :> <<"str", "none">>)>> >>>>}

Pipelines == {[i \in DOMAIN ins |-> PipelineStep("s" \o ToString(i), ins[i])] :
                ins \in SeqsUpTo(StepInputs, MaxSteps)}

Composition(meta, mode, rs, pipeline) ==
    [Metadata |-> meta,
     Spec |-> [CompositeTypeRef |-> [APIVersion |-> "example.org/v1", Kind |-> "XDatabase"],
               Mode |-> mode, Resources |-> rs, Pipeline |-> pipeline]]

Compositions ==
    {Composition("name" :> <<"str", "db">>, mode, rs, pipeline) :
        mode \in {"", "Pipeline", "Resources"},
        rs \in PatchedResources \cup ResourceLists,
        pipeline \in {<<>>, <<PipelineStep("s", "resources" :>
                                <<"seq", <<GenericResource("b", Base, <<>>)>>>>)>>}}
    \cup
    {Composition(<<>>, mode, rs, pipeline) :
        mode \in {"", "Pipeline", "Resources"},
        rs \in {<<>>, <<Resource("x", Base, <<>>)>>},
        pipeline \in PatchedPipelines \cup Pipelines}

-----------------------------------------------------------------------------
(* package composition: Generate, step by step *)

NoXRD == <<>>

InitComposition ==
    /\ prog = "composition"
    /\ pc = "Generate"
    /\ comp \in Compositions
    /\ opts \in [ShowPatches : BOOLEAN]
    /\ resources = <<>>
    /\ xrd = NoXRD
    /\ version = 0
    /\ specFields = <<>>
    /\ statusFields = <<>>
    /\ flatSpecFields = <<>>
    /\ flatStatusFields = <<>>
    /\ result = <<>>
    /\ err = ""

\* Generate: parse pipeline mode
GeneratePipeline ==
    /\ prog = "composition" /\ pc = "Generate"
    /\ comp.Spec.Mode = "Pipeline" /\ Len(comp.Spec.Pipeline) > 0
    /\ resources' = extractPipelineResources(comp.Spec.Pipeline, opts)
    /\ pc' = "sort"
    /\ UNCHANGED <<prog, xrd, opts, version, specFields, statusFields,
                   flatSpecFields, flatStatusFields, comp, result, err>>

\* Generate: parse resources mode
GenerateResources ==
    /\ prog = "composition" /\ pc = "Generate"
    /\ ~(comp.Spec.Mode = "Pipeline" /\ Len(comp.Spec.Pipeline) > 0)
    /\ resources' = extractResources(comp.Spec.Resources, opts)
    /\ pc' = "sort"
    /\ UNCHANGED <<prog, xrd, opts, version, specFields, statusFields,
                   flatSpecFields, flatStatusFields, comp, result, err>>

\* generateMarkdown: sort resources by name
SortResources ==
    /\ prog = "composition" /\ pc = "sort"
    /\ resources' \in SortSlice(resources,
            [i \in DOMAIN resources, j \in DOMAIN resources |->
                resourceLess(resources[i], resources[j])])
    /\ pc' = "render"
    /\ UNCHANGED <<prog, xrd, opts, version, specFields, statusFields,
                   flatSpecFields, flatStatusFields, comp, result, err>>

\* generateMarkdown: execute the template and return its output
RenderComposition ==
    /\ prog = "composition" /\ pc = "render"
    /\ result' = compExecuteTemplate(comp, IF IsString(MapIndex(comp.Metadata, "name"))
                                           THEN comp.Metadata["name"][2] ELSE "unknown",
                                     resources, opts.ShowPatches)
    /\ err' = ""
    /\ pc' = "done"
    /\ UNCHANGED <<prog, xrd, opts, version, specFields, statusFields,
                   flatSpecFields, flatStatusFields, comp, resources>>

NextComposition ==
    \/ GeneratePipeline
    \/ GenerateResources
    \/ SortResources
    \/ RenderComposition

CompositionSpec == InitComposition /\ [][NextComposition]_vars

-----------------------------------------------------------------------------
(* Properties of the XRD generator *)

\* The section node the fields of a prefix are extracted from; a node
\* without properties when the root does not declare the section.
SectionOf(schema, prefix) ==
    IF prefix \in DOMAIN schema.Properties
    THEN schema.Properties[prefix]
    ELSE OpenAPISchema

SectionNode(prefix) == SectionOf(versionSchema, prefix)

SpecExtracted ==
    prog = "xrd" /\ version # 0 /\ pc \in {"extractStatus", "sort", "flatten", "render", "done"}

StatusExtracted ==
    prog = "xrd" /\ version # 0 /\ pc \in {"sort", "flatten", "render", "done"}

Rendered == prog = "xrd" /\ version # 0 /\ pc = "done"

ApiVersionLine(v) == "**API Version:** " \o v.Name \o "  "

FieldNames(fields) == {fields[i].Name : i \in DOMAIN fields}

\* C1: for an XRD with a non-empty version list Generate documents exactly
\* one version, the first one in declaration order whose served flag is
\* true or, when none is served, the first declared one, and reports no
\* error: the chosen index, the fields and the rendered API version are
\* those of that version and of no other.
C1_FirstServedVersion ==
    LET vs == xrd.Spec.Versions
        served == {i \in DOMAIN vs : vs[i].Served}
        documented == IF served # {}
                      THEN CHOOSE i \in served : \A j \in served : i <= j
                      ELSE 1
    IN  (prog = "xrd" /\ Len(vs) > 0 /\ pc # "Generate") =>
          /\ version = documented
          /\ err = ""
          /\ SpecExtracted =>
               FieldNames(specFields) =
                   DOMAIN SectionOf(vs[documented].Schema.OpenAPIV3Schema, "spec").Properties
          /\ pc = "done" =>
               \A i \in DOMAIN vs : ApiVersionLine(vs[i]) \in Range(result) <=> i = documented

\* The scenario of two versions, the first not served and the second
\* served, with different schemas, rendered.
C1_Witness ==
    /\ Rendered
    /\ Len(xrd.Spec.Versions) = 2
    /\ ~xrd.Spec.Versions[1].Served
    /\ xrd.Spec.Versions[2].Served
    /\ xrd.Spec.Versions[1].Schema # xrd.Spec.Versions[2].Schema
    /\ version = 2
    /\ ApiVersionLine(xrd.Spec.Versions[2]) \in Range(result)

\* C2: Generate on an XRD without versions returns the error and the empty
\* text, and extracts no field; on an XRD with a version it never returns
\* that error.
C2_NoVersionsError ==
    prog = "xrd" =>
      /\ (Len(xrd.Spec.Versions) = 0 /\ pc # "Generate") =>
            /\ pc = "done"
            /\ err = "no versions found in XRD"
            /\ result = <<>>
            /\ version = 0
            /\ specFields = <<>> /\ statusFields = <<>>
            /\ flatSpecFields = <<>> /\ flatStatusFields = <<>>
      /\ Len(xrd.Spec.Versions) > 0 => err # "no versions found in XRD"

C2_Witness ==
    /\ prog = "xrd" /\ pc = "done"
    /\ Len(xrd.Spec.Versions) = 0
    /\ err = "no versions found in XRD"
    /\ result = <<>>

\* The extracted fields of a node are one per declared property, and so on
\* below every property that is an object.
RECURSIVE OneFieldPerProperty(_, _)
OneFieldPerProperty(fields, node) ==
    /\ Len(fields) = Cardinality(DOMAIN node.Properties)
    /\ FieldNames(fields) = DOMAIN node.Properties
    /\ \A i \in DOMAIN fields :
         LET prop == node.Properties[fields[i].Name]
         IN  IF prop.Type = "object"
             THEN OneFieldPerProperty(fields[i].Nested, prop)
             ELSE fields[i].Nested = <<>>

\* The fields are one per declared property and none has nested fields.
NoNesting(fields, node) ==
    /\ Len(fields) = Cardinality(DOMAIN node.Properties)
    /\ FieldNames(fields) = DOMAIN node.Properties
    /\ \A i \in DOMAIN fields : fields[i].Nested = <<>>

\* C3: with showNested=false no extracted Field has nested fields (no
\* recursion at all, so the flattened list is the top level); with
\* showNested=true every level holds exactly one Field per declared
\* property of the object node it was extracted from.
C3_NestedPerProperty ==
    /\ SpecExtracted =>
         IF opts.ShowNested
         THEN OneFieldPerProperty(specFields, SectionNode("spec"))
         ELSE NoNesting(specFields, SectionNode("spec"))
    /\ StatusExtracted =>
         IF opts.ShowNested
         THEN OneFieldPerProperty(statusFields, SectionNode("status"))
         ELSE NoNesting(statusFields, SectionNode("status"))
    /\ (Rendered /\ ~opts.ShowNested) =>
         /\ Len(flatSpecFields) = Cardinality(DOMAIN SectionNode("spec").Properties)
         /\ Len(flatStatusFields) = Cardinality(DOMAIN SectionNode("status").Properties)

\* showNested=true on a schema three levels deep: a field with two nested
\* fields, one of which has a nested field of its own.
C3_Witness ==
    /\ SpecExtracted /\ opts.ShowNested
    /\ \E i \in DOMAIN specFields :
         /\ Len(specFields[i].Nested) = 2
         /\ \E k \in 1..2 : Len(specFields[i].Nested[k].Nested) = 1

\* Every field is required exactly when its name is in the required list
\* of the node it is a property of, at every level.
RECURSIVE RequiredByParent(_, _)
RequiredByParent(fields, node) ==
    \A i \in DOMAIN fields :
        /\ fields[i].Required <=> fields[i].Name \in Range(node.Required)
        /\ RequiredByParent(fields[i].Nested, node.Properties[fields[i].Name])

\* C4: at every nesting level a Field is required if and only if its name
\* is in the required list of its immediate parent node; the lists of
\* other levels have no influence.
C4_RequiredScoped ==
    /\ SpecExtracted => RequiredByParent(specFields, SectionNode("spec"))
    /\ StatusExtracted => RequiredByParent(statusFields, SectionNode("status"))

\* A required top-level field "x" with a nested field "x" that is not
\* required, and a nested field required though its parent is not.
C4_Witness ==
    /\ SpecExtracted /\ opts.ShowNested
    /\ \E i \in DOMAIN specFields :
         /\ specFields[i].Name = "x" /\ specFields[i].Required
         /\ \E k \in DOMAIN specFields[i].Nested :
              /\ specFields[i].Nested[k].Name = "x"
              /\ ~specFields[i].Nested[k].Required
         /\ \E k \in DOMAIN specFields[i].Nested :
              /\ ~specFields[i].Nested[k].Required
              /\ \E m \in DOMAIN specFields[i].Nested[k].Nested :
                   specFields[i].Nested[k].Nested[m].Required

\* The positions of the forest: a position is the path of child indexes
\* that leads to a field.
RECURSIVE PathsOf(_)
PathsOf(fields) ==
    UNION {{<<i>>} \cup {<<i>> \o p : p \in PathsOf(fields[i].Nested)} :
           i \in DOMAIN fields}

RECURSIVE FieldAt(_, _)
FieldAt(fields, path) ==
    IF Len(path) = 1 THEN fields[path[1]]
    ELSE FieldAt(fields[path[1]].Nested, Tail(path))

\* p comes before q in pre-order: p is an ancestor of q, or p branches off
\* to an earlier child where they part.
PathBefore(p, q) ==
    \/ Len(p) < Len(q) /\ \A k \in 1..Len(p) : p[k] = q[k]
    \/ \E k \in 1..Len(p) :
         /\ k <= Len(q)
         /\ p[k] < q[k]
         /\ \A m \in 1..(k - 1) : p[m] = q[m]

IsPreOrder(flat, fields) ==
    LET P == PathsOf(fields)
    IN  /\ Len(flat) = Cardinality(P)
        /\ \A p \in P :
             flat[1 + Cardinality({q \in P : PathBefore(q, p)})] = FieldAt(fields, p)

\* C5: flattenFields is the pre-order flattening of the nested forest:
\* every field appears exactly once, after its ancestors and after the
\* whole subtrees of its earlier siblings, in the given child order.
C5_FlattenPreOrder ==
    (prog = "xrd" /\ version # 0 /\ pc \in {"render", "done"}) =>
        /\ IsPreOrder(flatSpecFields, specFields)
        /\ IsPreOrder(flatStatusFields, statusFields)

\* F with children [A, B], A with child [A1], flattened to [F, A, A1, B]
C5_Witness ==
    /\ prog = "xrd" /\ pc = "render"
    /\ \E i \in DOMAIN specFields :
         LET F == specFields[i]
         IN  /\ Len(F.Nested) = 2
             /\ Len(F.Nested[1].Nested) = 1
             /\ F.Nested[2].Nested = <<>>
             /\ \E k \in DOMAIN flatSpecFields :
                  /\ k + 3 <= Len(flatSpecFields)
                  /\ flatSpecFields[k] = F
                  /\ flatSpecFields[k + 1] = F.Nested[1]
                  /\ flatSpecFields[k + 2] = F.Nested[1].Nested[1]
                  /\ flatSpecFields[k + 3] = F.Nested[2]

IsPermutation(s, t) ==
    /\ Len(s) = Len(t)
    /\ \E p \in Perms(Len(s)) : \A i \in DOMAIN s : s[i] = t[p[i]]

RequiredFirst(fields) ==
    \A i, j \in DOMAIN fields :
        (fields[i].Required /\ ~fields[j].Required) => i < j

AscendingInGroups(fields) ==
    \A i, j \in DOMAIN fields :
        (i < j /\ fields[i].Required = fields[j].Required)
            => StringRank(fields[i].Name) < StringRank(fields[j].Name)

\* C6: the pre-render sort turns the extracted top-level spec fields,
\* whatever order the property map was iterated in, into a permutation of
\* them with every required field before every optional one and the names
\* ascending within each of the two groups.
C6_SpecSort ==
    [][(prog = "xrd" /\ pc = "sort") =>
          /\ IsPermutation(specFields', specFields)
          /\ RequiredFirst(specFields')
          /\ AscendingInGroups(specFields')]_vars

\* Three sorted spec fields of which the first is required and has the
\* greatest name, the others optional.
C6_Witness ==
    /\ prog = "xrd" /\ pc = "flatten"
    /\ Len(specFields) = 3
    /\ specFields[1].Required /\ specFields[1].Name = "x"
    /\ ~specFields[2].Required /\ specFields[2].Name = "a"
    /\ ~specFields[3].Required /\ specFields[3].Name = "b"

\* Every extracted field paired with the schema node it was built from
RECURSIVE FieldProps(_, _)
FieldProps(fields, node) ==
    UNION {{<<fields[i], node.Properties[fields[i].Name]>>}
           \cup FieldProps(fields[i].Nested, node.Properties[fields[i].Name]) :
           i \in DOMAIN fields}

ExtractedFieldProps ==
    (IF SpecExtracted THEN FieldProps(specFields, SectionNode("spec")) ELSE {})
    \cup (IF StatusExtracted THEN FieldProps(statusFields, SectionNode("status")) ELSE {})

\* C7 as stated: every node with a non-empty enum is formatted "string",
\* whatever its declared type, array and object included.
C7_EnumAlwaysString ==
    \A fp \in ExtractedFieldProps :
        Len(fp[2].Enum) > 0 => fp[1].Type = "string"

\* The display type of a scalar items node
ItemType(items) == IF Len(items.Enum) > 0 THEN "string" ELSE items.Type

\* C7 amended: a node with a non-empty enum is formatted "string" unless it
\* is declared object, which is formatted "object", or declared array with
\* items, which is formatted list(<type of the items>); integer, number,
\* boolean, string, an empty type and an array without items give "string".
C7_EnumStringUnlessObjectOrList ==
    \A fp \in ExtractedFieldProps :
        Len(fp[2].Enum) > 0 =>
            fp[1].Type = IF fp[2].Type = "array" /\ fp[2].Items # <<>>
                         THEN "list(" \o ItemType(fp[2].Items[1]) \o ")"
                         ELSE IF fp[2].Type = "object" THEN "object"
                         ELSE "string"

\* An integer node with an enum, extracted as type "string"
C7_Witness ==
    \E fp \in ExtractedFieldProps :
        fp[2].Type = "integer" /\ Len(fp[2].Enum) > 0 /\ fp[1].Type = "string"

\* The constraint categories in their fixed order, and which are present
Categories == <<"Allowed", "Min", "Max", "MinItems", "MaxItems">>

Present(node, category) ==
    CASE category = "Allowed"  -> Len(node.Enum) > 0
      [] category = "Min"      -> node.Minimum # <<>>
      [] category = "Max"      -> node.Maximum # <<>>
      [] category = "MinItems" -> node.MinItems # <<>>
      [] category = "MaxItems" -> node.MaxItems # <<>>

EntryOf(node, category) ==
    category \o ": " \o
    (CASE category = "Allowed"  ->
            Join([i \in DOMAIN node.Enum |-> Backtick \o SprintV(node.Enum[i]) \o Backtick], ", ")
       [] category = "Min"      -> ToString(node.Minimum[1])
       [] category = "Max"      -> ToString(node.Maximum[1])
       [] category = "MinItems" -> ToString(node.MinItems[1])
       [] category = "MaxItems" -> ToString(node.MaxItems[1]))

ExpectedConstraints(node) ==
    LET present == SelectSeq(Categories, LAMBDA c : Present(node, c))
    IN  Join([i \in DOMAIN present |-> EntryOf(node, present[i])], ", ")

OnlyMinAndMaxItems(node) ==
    /\ node.Enum = <<>> /\ node.Maximum = <<>> /\ node.MinItems = <<>>
    /\ node.Minimum = <<1>> /\ node.MaxItems = <<5>>

\* C8: the constraints text holds one entry for each category present on
\* the node and none for an absent one, in the order Allowed, Min, Max,
\* MinItems, MaxItems, joined by ", "; it is empty when no category is
\* present, and minimum=1 with maxItems=5 gives "Min: 1, MaxItems: 5".
C8_ConstraintsOrder ==
    \A fp \in ExtractedFieldProps :
        /\ fp[1].Constraints = ExpectedConstraints(fp[2])
        /\ (\A i \in DOMAIN Categories : ~Present(fp[2], Categories[i]))
             => fp[1].Constraints = ""
        /\ OnlyMinAndMaxItems(fp[2]) => fp[1].Constraints = "Min: 1, MaxItems: 5"

C8_Witness ==
    \E fp \in ExtractedFieldProps :
        OnlyMinAndMaxItems(fp[2]) /\ fp[1].Constraints = "Min: 1, MaxItems: 5"

-----------------------------------------------------------------------------
(* Properties of the Composition generator *)

\* The state right after extraction, before the resources are sorted
Extracted == prog = "composition" /\ pc = "sort"

PipelineMode == comp.Spec.Mode = "Pipeline" /\ Len(comp.Spec.Pipeline) > 0

\* The entries under the resources key of step k, none when the key is
\* missing or holds no sequence
StepEntries(k) ==
    LET input == comp.Spec.Pipeline[k].Input
    IN  IF "resources" \in DOMAIN input /\ input["resources"][1] = "seq"
        THEN input["resources"][2]
        ELSE <<>>

\* The places <<step, entry>> of the pipeline that hold a resource map
ResourceMapPlaces ==
    UNION {{<<k, j>> : j \in {i \in DOMAIN StepEntries(k) : StepEntries(k)[i][1] = "map"}} :
           k \in DOMAIN comp.Spec.Pipeline}

PlaceBefore(p, q) == p[1] < q[1] \/ (p[1] = q[1] /\ p[2] < q[2])

\* The string under a key of a map, "" when missing or no string
StringAt(m, key) ==
    IF key \in DOMAIN m /\ m[key][1] = "str" THEN m[key][2] ELSE ""

BaseStringAt(m, key) ==
    IF "base" \in DOMAIN m /\ m["base"][1] = "map" THEN StringAt(m["base"][2], key) ELSE ""

\* C9: in mode "Pipeline" with a non-empty step list the managed resources
\* are exactly the resource maps under the resources key of the step
\* inputs, in step order, whatever the static list holds; otherwise they
\* are exactly the entries of the static resources list; a composition with
\* neither gives zero managed resources and no error.
C9_ExtractionMode ==
    /\ Extracted =>
         IF PipelineMode
         THEN /\ Len(resources) = Cardinality(ResourceMapPlaces)
              /\ \A p \in ResourceMapPlaces :
                    LET r == resources[1 + Cardinality({q \in ResourceMapPlaces : PlaceBefore(q, p)})]
                        m == StepEntries(p[1])[p[2]][2]
                    IN  /\ r.Name = StringAt(m, "name")
                        /\ r.Kind = BaseStringAt(m, "kind")
                        /\ r.APIVersion = BaseStringAt(m, "apiVersion")
         ELSE /\ Len(resources) = Len(comp.Spec.Resources)
              /\ \A i \in DOMAIN resources :
                    /\ resources[i].Name = comp.Spec.Resources[i].Name
                    /\ resources[i].Kind = StringAt(comp.Spec.Resources[i].Base, "kind")
                    /\ resources[i].APIVersion = StringAt(comp.Spec.Resources[i].Base, "apiVersion")
    /\ (prog = "composition" /\ pc = "done") =>
         /\ err = ""
         /\ (IF PipelineMode THEN ResourceMapPlaces = {} ELSE comp.Spec.Resources = <<>>)
              => /\ resources = <<>>
                 /\ "This composition creates 0 managed resource(s):" \in Range(result)

\* Pipeline mode with two steps that both contribute resources, one of them
\* after an entry that is no map, while the static list is not empty
C9_Witness ==
    /\ Extracted /\ PipelineMode
    /\ comp.Spec.Resources # <<>>
    /\ \E p, q \in ResourceMapPlaces : p[1] = 1 /\ q[1] = 2 /\ q[2] = 2
    /\ Len(resources) >= 2

\* C10: every PatchInfo kept in a ManagedResource, by either extraction
\* path, has a non-empty source field or a non-empty target field.
C10_PatchHasSourceOrTarget ==
    (prog = "composition" /\ pc # "Generate") =>
        \A i \in DOMAIN resources :
            \A k \in DOMAIN resources[i].Patches :
                resources[i].Patches[k].XRDField # "" \/ resources[i].Patches[k].MappedTo # ""

\* The entries under the patches key of a resource map, none when the key
\* is missing or holds no sequence
PatchEntries(m) ==
    IF "patches" \in DOMAIN m /\ m["patches"][1] = "seq" THEN m["patches"][2] ELSE <<>>

\* The patch entries that are maps with a source or a target field path
KeptEntries(ps) ==
    {i \in DOMAIN ps :
        /\ ps[i][1] = "map"
        /\ (StringAt(ps[i][2], "fromFieldPath") # "" \/ StringAt(ps[i][2], "toFieldPath") # "")}

\* The managed resource extracted from the resource map at a place
ResourceAt(p) == resources[1 + Cardinality({q \in ResourceMapPlaces : PlaceBefore(q, p)})]

\* The map of the resource at a place
ResourceMapAt(p) == StepEntries(p[1])[p[2]][2]

\* The PatchInfo kept for entry i of the patch entries ps of resource r
PatchInfoOf(r, ps, i) == r.Patches[Cardinality({j \in KeptEntries(ps) : j <= i})]

\* The format string of the combine of a patch map, <<>> when there is none
FmtOf(m) ==
    IF /\ "combine" \in DOMAIN m /\ m["combine"][1] = "map"
       /\ "string" \in DOMAIN m["combine"][2] /\ m["combine"][2]["string"][1] = "map"
       /\ "fmt" \in DOMAIN m["combine"][2]["string"][2]
       /\ m["combine"][2]["string"][2]["fmt"][1] = "str"
    THEN <<m["combine"][2]["string"][2]["fmt"][2]>>
    ELSE <<>>

HasCombine(m) == "combine" \in DOMAIN m /\ m["combine"][1] = "map"

\* The transformation the classification rule gives a typed patch
ClassifiedTyped(p) ==
    IF p.Combine # <<>> /\ p.Combine[1].String # <<>> THEN p.Combine[1].String[1].Fmt
    ELSE IF p.Type \in {"FromCompositeFieldPath", "ToCompositeFieldPath"} THEN "Direct copy"
    ELSE p.Type

\* The transformation the classification rule gives a patch map
ClassifiedGeneric(m) ==
    IF FmtOf(m) # <<>> THEN FmtOf(m)[1]
    ELSE IF StringAt(m, "fromFieldPath") # "" /\ ~HasCombine(m) THEN "Direct copy"
    ELSE StringAt(m, "type")

\* C11: the transformation of every kept patch, in both extraction paths,
\* is the combine.string.fmt value when one is present; else "Direct copy"
\* when the type is FromCompositeFieldPath or ToCompositeFieldPath (for a
\* patch map: when a source field path is present and there is no combine);
\* and the raw patch type string in every other case.
C11_TransformationClassification ==
    (Extracted /\ opts.ShowPatches) =>
        IF PipelineMode
        THEN \A p \in ResourceMapPlaces :
                LET ps == PatchEntries(ResourceMapAt(p))
                IN  /\ Len(ResourceAt(p).Patches) = Cardinality(KeptEntries(ps))
                    /\ \A i \in KeptEntries(ps) :
                          PatchInfoOf(ResourceAt(p), ps, i).Transformation
                              = ClassifiedGeneric(ps[i][2])
        ELSE \A i \in DOMAIN resources :
                /\ Len(resources[i].Patches) = Len(comp.Spec.Resources[i].Patches)
                /\ \A k \in DOMAIN resources[i].Patches :
                      resources[i].Patches[k].Transformation
                          = ClassifiedTyped(comp.Spec.Resources[i].Patches[k])

\* C12: a patch with a non-empty fromFieldPath, a non-empty toFieldPath and
\* no combine is kept with the transformation "Direct copy", from the static
\* resources list and from a pipeline step input alike, whatever its type
\* field holds, an omitted type included.
C12_DirectCopyEitherPath ==
    (Extracted /\ opts.ShowPatches) =>
        IF PipelineMode
        THEN \A p \in ResourceMapPlaces :
                LET ps == PatchEntries(ResourceMapAt(p))
                IN  \A i \in KeptEntries(ps) :
                        (/\ StringAt(ps[i][2], "fromFieldPath") # ""
                         /\ StringAt(ps[i][2], "toFieldPath") # ""
                         /\ "combine" \notin DOMAIN ps[i][2])
                        => PatchInfoOf(ResourceAt(p), ps, i).Transformation = "Direct copy"
        ELSE \A i \in DOMAIN resources :
                \A k \in DOMAIN comp.Spec.Resources[i].Patches :
                    LET patch == comp.Spec.Resources[i].Patches[k]
                    IN  (/\ patch.FromFieldPath # ""
                         /\ patch.ToFieldPath # ""
                         /\ patch.Combine = <<>>)
                        => resources[i].Patches[k].Transformation = "Direct copy"

\* t holds the elements of s in non-decreasing order of name, those of
\* equal name in the order they have in s
IsStableSortByName(t, s) ==
    /\ Len(t) = Len(s)
    /\ \A i, j \in DOMAIN t : i < j => ~StringLess(t[j].Name, t[i].Name)
    /\ \E p \in Perms(Len(s)) :
          /\ \A i \in DOMAIN s : t[p[i]] = s[i]
          /\ \A i, j \in DOMAIN s : (i < j /\ s[i].Name = s[j].Name) => p[i] < p[j]

\* C13: before rendering the managed resources are sorted by name ascending
\* with a stable sort, in both extraction modes: the rendered sequence is a
\* permutation of the extracted one with non-decreasing names, and resources
\* of equal name keep their relative extraction order.
C13_StableSortByName ==
    [][(prog = "composition" /\ pc = "sort") => IsStableSortByName(resources', resources)]_vars

-----------------------------------------------------------------------------
(* Further properties of the XRD generator *)

\* The section of a prefix is absent from the root's properties or is
\* present without properties
NoSectionProperties(prefix) == DOMAIN SectionNode(prefix).Properties = {}

StatusTable ==
    {"## Status Fields", "| Name | Type | Description |", "|------|------|-------------|"}

SpecTable ==
    {"## Spec Fields",
     "| Name | Type | Description | Required | Default | Constraints |",
     "|------|------|-------------|----------|---------|-------------|"}

\* C14: a section, spec or status, that the root does not declare or that
\* has no properties is extracted as the empty field sequence, without
\* error; the output holds the Status Fields heading and table exactly when
\* the extracted status field list is not empty, and always holds the Spec
\* Fields section and the Example section.
C14_EmptySections ==
    /\ (SpecExtracted /\ NoSectionProperties("spec")) => (specFields = <<>> /\ err = "")
    /\ (StatusExtracted /\ NoSectionProperties("status")) => (statusFields = <<>> /\ err = "")
    /\ Rendered =>
         /\ err = ""
         /\ SpecTable \subseteq Range(result)
         /\ "## Example" \in Range(result)
         /\ \A l \in StatusTable : l \in Range(result) <=> statusFields # <<>>

\* A document whose root declares no spec and a status without properties,
\* rendered: both lists empty, no Status Fields section, the other two there
C14_Witness ==
    /\ Rendered
    /\ "spec" \notin DOMAIN versionSchema.Properties
    /\ "status" \in DOMAIN versionSchema.Properties
    /\ NoSectionProperties("status")
    /\ specFields = <<>> /\ statusFields = <<>>
    /\ "## Status Fields" \notin Range(result)
    /\ "## Spec Fields" \in Range(result) /\ "## Example" \in Range(result)

-----------------------------------------------------------------------------
(* Further properties of the Composition generator *)

\* The line of the output that tells the number of managed resources
CountLine(n) == "This composition creates " \o ToString(n) \o " managed resource(s):"

\* C15: in pipeline extraction a step whose resources value is no sequence
\* contributes nothing, a resources entry that is no mapping is not
\* collected and a patches entry that is no mapping is not collected, while
\* the mappings next to them are collected unchanged: the managed resources
\* are as many as the mapping entries over all steps, and Generate returns
\* a result without error.
C15_MalformedSkipped ==
    /\ (Extracted /\ PipelineMode) =>
         /\ Len(resources) = Cardinality(ResourceMapPlaces)
         /\ \A p \in ResourceMapPlaces :
               LET m == ResourceMapAt(p)
                   r == ResourceAt(p)
                   ps == PatchEntries(m)
               IN  /\ r.Name = StringAt(m, "name")
                   /\ r.Kind = BaseStringAt(m, "kind")
                   /\ r.APIVersion = BaseStringAt(m, "apiVersion")
                   /\ opts.ShowPatches =>
                        /\ Len(r.Patches) <= Cardinality({i \in DOMAIN ps : ps[i][1] = "map"})
                        /\ Len(r.Patches) = Cardinality(KeptEntries(ps))
                        /\ \A i \in KeptEntries(ps) :
                              /\ PatchInfoOf(r, ps, i).XRDField = StringAt(ps[i][2], "fromFieldPath")
                              /\ PatchInfoOf(r, ps, i).MappedTo = StringAt(ps[i][2], "toFieldPath")
    /\ (prog = "composition" /\ pc = "done" /\ PipelineMode) =>
         /\ err = ""
         /\ Len(resources) = Cardinality(ResourceMapPlaces)
         /\ CountLine(Cardinality(ResourceMapPlaces)) \in Range(result)

\* Two steps, the first with a resources value that is no sequence, the
\* second with an entry that is no mapping before a resource whose patches
\* start with an entry that is no mapping: one resource with one patch
C15_Witness ==
    /\ prog = "composition" /\ pc = "done" /\ PipelineMode /\ opts.ShowPatches
    /\ Len(comp.Spec.Pipeline) = 2
    /\ "resources" \in DOMAIN comp.Spec.Pipeline[1].Input
    /\ comp.Spec.Pipeline[1].Input["resources"][1] # "seq"
    /\ Len(StepEntries(2)) = 2
    /\ StepEntries(2)[1][1] # "map"
    /\ ResourceMapPlaces = {<<2, 2>>}
    /\ PatchEntries(ResourceMapAt(<<2, 2>>))[1][1] # "map"
    /\ Len(resources) = 1
    /\ Len(resources[1].Patches) = 1
    /\ err = "" /\ CountLine(1) \in Range(result)

\* The name, kind and apiVersion of each of a list of managed resources
Identities(rs) == [i \in DOMAIN rs |-> <<rs[i].Name, rs[i].Kind, rs[i].APIVersion>>]

\* What the extraction of the same composition gives with showPatches=true
ExtractedWithPatches ==
    IF PipelineMode
    THEN extractPipelineResources(comp.Spec.Pipeline, [ShowPatches |-> TRUE])
    ELSE extractResources(comp.Spec.Resources, [ShowPatches |-> TRUE])

MappingTableHeader == "| XRD Field | Mapped To | Transformation |"

\* The number of output lines of the Field Mappings subsection of a resource
BlockSize(r) == IF r.Patches = <<>> THEN 2 ELSE 3 + Len(r.Patches)

\* The number of Field Mappings lines before the subsection of resource i
RECURSIVE BlockOffset(_, _)
BlockOffset(rs, i) == IF i = 1 THEN 0 ELSE BlockOffset(rs, i - 1) + BlockSize(rs[i - 1])

\* C16: patches are extracted only when showPatches is true. With
\* showPatches=false every managed resource of either extraction mode has
\* an empty patch list and the output has no Field Mappings section, and
\* the resources, their names, kinds and apiVersions are those that
\* showPatches=true gives; with showPatches=true a resource with an empty
\* patch list is rendered with the line "No patches defined." and no
\* mapping table.
C16_PatchesOnlyIfShown ==
    /\ (prog = "composition" /\ pc # "Generate" /\ ~opts.ShowPatches) =>
         \A i \in DOMAIN resources : resources[i].Patches = <<>>
    /\ (Extracted /\ ~opts.ShowPatches) =>
         Identities(resources) = Identities(ExtractedWithPatches)
    /\ (prog = "composition" /\ pc = "done" /\ ~opts.ShowPatches) =>
         /\ "## Field Mappings" \notin Range(result)
         /\ MappingTableHeader \notin Range(result)
         /\ "No patches defined." \notin Range(result)
         /\ Len(result) = 7 + Len(resources) + (IF comp.Spec.Mode # "" THEN 1 ELSE 0)
    /\ (prog = "composition" /\ pc = "done" /\ opts.ShowPatches) =>
         /\ "## Field Mappings" \in Range(result)
         /\ LET f == CHOOSE k \in DOMAIN result : result[k] = "## Field Mappings"
            IN  \A i \in DOMAIN resources :
                    LET h == f + 1 + BlockOffset(resources, i)
                    IN  /\ result[h] = "### " \o resources[i].Name
                                       \o " (" \o resources[i].Kind \o ")"
                        /\ resources[i].Patches = <<>> => result[h + 1] = "No patches defined."
                        /\ resources[i].Patches # <<>> => result[h + 1] = MappingTableHeader
         /\ Cardinality({k \in DOMAIN result : result[k] = "No patches defined."})
              = Cardinality({i \in DOMAIN resources : resources[i].Patches = <<>>})

\* A static resource that declares patches, rendered with showPatches=false
C16_Witness ==
    /\ prog = "composition" /\ pc = "done" /\ ~opts.ShowPatches /\ ~PipelineMode
    /\ Len(comp.Spec.Resources) = 1
    /\ Len(comp.Spec.Resources[1].Patches) = 2
    /\ Len(resources) = 1 /\ resources[1].Patches = <<>>
    /\ "## Field Mappings" \notin Range(result)
    /\ "| a | Bucket | s3.aws/v1 |" \in Range(result)

-----------------------------------------------------------------------------
(* The level of the rows of the XRD tables *)

\* Every field of the forest has the level of its depth: 0 at the top, one
\* more than its parent below
LevelsAreDepths(fields) ==
    \A p \in PathsOf(fields) : FieldAt(fields, p).Level = Len(p) - 1

\* The k-th row of the flattened list has the depth of the k-th position of
\* the forest in pre-order
RowLevelsAreDepths(flat, fields) ==
    LET P == PathsOf(fields)
    IN  /\ Len(flat) = Cardinality(P)
        /\ \A p \in P :
              flat[1 + Cardinality({q \in P : PathBefore(q, p)})].Level = Len(p) - 1

\* The first row has level 0 and no row is more than one level below the
\* row before it
LevelSteps(flat) ==
    /\ flat # <<>> => flat[1].Level = 0
    /\ \A k \in DOMAIN flat : k > 1 => flat[k].Level <= flat[k - 1].Level + 1

\* C17: every row of the flattened spec or status list has the level of its
\* nesting depth below the section, 0 for the section's own properties and
\* the parent's level plus one for a nested property; sorting and flattening
\* change no level; the first row has level 0 and each row's level is at
\* most one more than that of the row before it; with showNested=false
\* every row has level 0.
C17_RowLevels ==
    /\ SpecExtracted => LevelsAreDepths(specFields)
    /\ StatusExtracted => LevelsAreDepths(statusFields)
    /\ (prog = "xrd" /\ version # 0 /\ pc \in {"render", "done"}) =>
         /\ RowLevelsAreDepths(flatSpecFields, specFields)
         /\ RowLevelsAreDepths(flatStatusFields, statusFields)
         /\ LevelSteps(flatSpecFields)
         /\ LevelSteps(flatStatusFields)
         /\ ~opts.ShowNested =>
              /\ \A k \in DOMAIN flatSpecFields : flatSpecFields[k].Level = 0
              /\ \A k \in DOMAIN flatStatusFields : flatStatusFields[k].Level = 0

\* Rows of levels 0, 1 and 2 in a row, and later a row of a lesser level
\* than the one before it
C17_Witness ==
    /\ prog = "xrd" /\ pc = "done" /\ opts.ShowNested
    /\ \E k \in DOMAIN flatSpecFields :
         /\ k + 3 <= Len(flatSpecFields)
         /\ flatSpecFields[k].Level = 0
         /\ flatSpecFields[k + 1].Level = 1
         /\ flatSpecFields[k + 2].Level = 2
         /\ flatSpecFields[k + 3].Level < 2

=============================================================================
